---- MODULE Spec2Model ----
(***************************************************************************)
(* A model of start_services.py: the bootstrap pipeline that syncs the     *)
(* Supabase checkout, prepares files, tears down the "localai" compose     *)
(* project, starts Supabase, sleeps, and starts the local AI stack.        *)
(*                                                                         *)
(* One action per function called by main().  Every external command has   *)
(* an outcome chosen by the environment (exit status 0 or non-zero); file  *)
(* operations may fail where the operating system lets them fail.  Text    *)
(* is a sequence of tokens, so that substring tests and replacements are   *)
(* computed the way Python's `in` and str.replace compute them.            *)
(***************************************************************************)
EXTENDS Naturals, Integers, Sequences, FiniteSets, TLC

VARIABLES
    profile,      \* args.profile
    environment,  \* args.environment
    run,          \* number of the current invocation of the script
    pc,           \* position of main() (the run's state)
    exitCode,     \* {} while the run is in progress, then {the process exit code}
    trail,        \* the positions main() went through in this run
    log,          \* commands issued and sleeps taken in this run, in order
    absorbed,     \* stages of this run in which a failure was caught
    repo,         \* the supabase/ checkout
    envFile,      \* whether the root .env exists
    settingsBase, \* whether searxng/settings-base.yml exists
    settings,     \* searxng/settings.yml
    compose,      \* docker-compose.yml
    containers,   \* names of the containers that exist
    running,      \* names of the containers that are running
    marker,       \* whether /etc/searxng/uwsgi.ini exists in the searxng container
    probe,        \* what the compose patch observed and decided, while main() is at PATCHED
    cleanupSaw,   \* the containers the cleanup passes of this run had before them
    provisioned   \* the outcomes of the last two executions of the secret stage

vars == <<profile, environment, run, pc, exitCode, trail, log, absorbed,
          repo, envFile, settingsBase, settings, compose, containers, running,
          marker, probe, cleanupSaw, provisioned>>

-----------------------------------------------------------------------------
(* Bounds of the model *)

\* Number of consecutive invocations of the script that are explored.
MaxRuns == 2

-----------------------------------------------------------------------------
(* Program constants *)

\* time.sleep(10)
SettleSeconds == 10

Profiles == {"cpu", "gpu-nvidia", "gpu-amd", "none"}
Environments == {"private", "public"}
Systems == {"Windows", "Darwin", "Linux"}

\* The parameters run_command declares.
RunCommandParams == {"cmd", "cwd", "description"}

\* conflicting_containers of cleanup_stray_containers, in order.
conflicting_containers ==
    << "ollama", "flowise", "qdrant", "searxng", "redis",
       "clickhouse", "minio", "langfuse-web", "langfuse-worker" >>

MainContainers ==
    << "localai-flowise-1", "localai-open-webui-1", "localai-n8n-1",
       "localai-n8n-import-1", "localai-qdrant-1", "localai-neo4j-1",
       "localai-caddy-1", "localai-langfuse-worker-1", "localai-langfuse-web-1",
       "localai-clickhouse-1", "localai-minio-1", "localai-redis-1",
       "localai-searxng-1", "localai-ollama-cpu-1", "localai-ollama-gpu-1",
       "localai-ollama-gpu-amd-1", "localai-ollama-pull-llama-cpu-1",
       "localai-ollama-pull-llama-gpu-1", "localai-ollama-pull-llama-gpu-amd-1" >>

SupabaseContainers ==
    << "supabase-studio-1", "supabase-kong-1", "supabase-auth-1",
       "supabase-rest-1", "realtime-dev.supabase-realtime-1", "supabase-storage-1",
       "supabase-imgproxy-1", "supabase-meta-1", "supabase-edge-functions-1",
       "supabase-analytics-1", "supabase-db-1", "supabase-vector-1",
       "supabase-pooler-1", "supabase-mail-1" >>

LegacyContainers ==
    << "n8n", "ollama", "ollama-pull-llama", "flowise", "open-webui",
       "qdrant", "caddy", "redis", "searxng" >>

\* all_containers of comprehensive_cleanup, in order.
all_containers == MainContainers \o SupabaseContainers \o LegacyContainers

Range(s) == {s[i] : i \in 1..Len(s)}

\* Container names of the lists above that the filter name=n8n matches.
N8nNames == {"localai-n8n-1", "localai-n8n-import-1", "n8n"}

\* Container names of the lists above that the filter name=searxng matches.
SearxngNames == {"localai-searxng-1", "searxng"}

-----------------------------------------------------------------------------
(* Text *)

\* Python: sub in s
Contains(s, sub) ==
    \E i \in 1..(Len(s) + 1 - Len(sub)) : SubSeq(s, i, i + Len(sub) - 1) = sub

\* Python: s.replace(old, new); leftmost non-overlapping occurrences.
RECURSIVE Replace(_, _, _)
Replace(s, old, new) ==
    IF Len(s) < Len(old) THEN s
    ELSE IF SubSeq(s, 1, Len(old)) = old
         THEN new \o Replace(SubSeq(s, Len(old) + 1, Len(s)), old, new)
         ELSE <<Head(s)>> \o Replace(Tail(s), old, new)

\* "cap_drop: - ALL"
Directive == << "cap_drop: - ALL" >>

\* "# cap_drop: - ALL  # Temporarily commented out for first run"
Sentinel == << "# ", "cap_drop: - ALL", "  # Temporarily commented out for first run" >>

\* The needle of the marker test, and the two lines the probe can print.
Found == << "f", "o", "u", "n", "d" >>
ProbeFound == << "f", "o", "u", "n", "d", "\n" >>
ProbeNotFound == << "n", "o", "t", "_", "f", "o", "u", "n", "d", "\n" >>

\* "ultrasecretkey"
Placeholder == << "ultrasecretkey" >>

\* Values of `openssl rand -hex 32` (two of them stand for all).
Keys == {"key-a", "key-b"}

NoFile == [exists |-> FALSE, content |-> <<>>]
File(c) == [exists |-> TRUE, content |-> c]

-----------------------------------------------------------------------------
(* Commands *)

Cmd(argv, ok) == [kind |-> "run", cmd |-> argv, ok |-> ok, secs |-> 0]
Sleep(n) == [kind |-> "sleep", cmd |-> <<>>, ok |-> TRUE, secs |-> n]

\* As Binds, for a run_command that also declares a parameter `check`.
BindsWithCheck(kwargs) == kwargs \subseteq RunCommandParams \cup {"check"}

\* Whether a call of run_command with these keyword names binds to its
\* parameters; a call that does not raises TypeError before anything runs.
Binds(kwargs) == kwargs \subseteq RunCommandParams

\* As DownCmd, without the profile flag.
DownCmdNoProfile(p) ==
    << "docker", "compose", "-p", "localai", "-f", "docker-compose.yml", "down" >>

DownCmd(p) ==
    << "docker", "compose", "-p", "localai" >>
    \o (IF p # "none" THEN << "--profile", p >> ELSE <<>>)
    \o << "-f", "docker-compose.yml", "down" >>

SupabaseUpCmd(e) ==
    << "docker", "compose", "-p", "localai", "-f", "supabase/docker/docker-compose.yml" >>
    \o (IF e = "public" THEN << "-f", "docker-compose.override.public.supabase.yml" >> ELSE <<>>)
    \o << "up", "-d" >>

\* As LocalAiUpCmd, with an override file for the public environment only.
LocalAiUpCmdPublicOnly(p, e) ==
    << "docker", "compose", "-p", "localai" >>
    \o (IF p # "none" THEN << "--profile", p >> ELSE <<>>)
    \o << "-f", "docker-compose.yml" >>
    \o (IF e = "public" THEN << "-f", "docker-compose.override.public.yml" >> ELSE <<>>)
    \o << "up", "-d" >>

LocalAiUpCmd(p, e) ==
    << "docker", "compose", "-p", "localai" >>
    \o (IF p # "none" THEN << "--profile", p >> ELSE <<>>)
    \o << "-f", "docker-compose.yml" >>
    \o (IF e = "private" THEN << "-f", "docker-compose.override.private.yml" >> ELSE <<>>)
    \o (IF e = "public" THEN << "-f", "docker-compose.override.public.yml" >> ELSE <<>>)
    \o << "up", "-d" >>

RmCmd(c) == << "docker", "rm", "-f", c >>
PsN8nCmd == << "docker", "ps", "-a", "--filter", "name=n8n", "--format", "{{.Names}}" >>
InspectRunningCmd(c) == << "docker", "inspect", "--format={{.State.Running}}", c >>
InspectNameCmd(c) == << "docker", "inspect", "--format={{.Name}}", c >>
PruneCmd == << "docker", "network", "prune", "-f" >>


CloneCmd ==
    << "git", "clone", "--filter=blob:none", "--no-checkout",
       "https://github.com/supabase/supabase.git" >>
SparseInitCmd == << "git", "sparse-checkout", "init", "--cone" >>
SparseSetCmd == << "git", "sparse-checkout", "set", "docker" >>
CheckoutCmd == << "git", "checkout", "master" >>
PullCmd == << "git", "pull" >>

PsLocalaiCmd ==
    << "docker", "ps", "-a", "--filter", "name=localai", "--format",
       "table {{.Names}}\t{{.Status}}\t{{.Image}}" >>
PsN8nTableCmd ==
    << "docker", "ps", "-a", "--filter", "name=n8n", "--format",
       "table {{.Names}}\t{{.Status}}\t{{.Image}}" >>
PsPortCmd ==
    << "docker", "ps", "--filter", "publish=5678", "--format",
       "table {{.Names}}\t{{.Status}}\t{{.Ports}}" >>

\* run_command on each command of cmds in turn until one exits non-zero:
\* the first k succeed, and the next one, if there is one, fails and raises.
RunUntilFailure(cmds, k) ==
    [i \in 1..(IF k < Len(cmds) THEN k + 1 ELSE k) |-> Cmd(cmds[i], i <= k)]

-----------------------------------------------------------------------------
(* The cleanup passes.  Each returns the commands it issued, the containers *)
(* it removed, and whether an exception escaped it (raised).                *)

\* Lines 107-111: the loop over the listed n8n containers.  The removals are
\* not guarded one by one: the first that fails raises out of the loop.
RECURSIVE RemoveListed(_, _)
RemoveListed(list, rmFail) ==
    IF list = <<>> THEN [log |-> <<>>, removed |-> {}, raised |-> FALSE]
    ELSE IF Head(list) \in rmFail
         THEN [log |-> << Cmd(RmCmd(Head(list)), FALSE) >>, removed |-> {}, raised |-> TRUE]
         ELSE LET r == RemoveListed(Tail(list), rmFail)
              IN  [log |-> << Cmd(RmCmd(Head(list)), TRUE) >> \o r.log,
                   removed |-> {Head(list)} \cup r.removed,
                   raised |-> r.raised]

\* Lines 122-134: inspect each name of conflicting_containers and remove it if
\* it is running.  The inspect call passes check=False to run_command; when
\* that does not bind, each iteration raises TypeError, which the bare except
\* swallows, and the loop issues nothing.
RECURSIVE RemoveConflicting(_, _, _, _)
RemoveConflicting(list, existing, up, rmFail) ==
    IF list = <<>> \/ ~Binds({"cmd", "description", "check"})
    THEN [log |-> <<>>, removed |-> {}]
    ELSE LET c == Head(list)
             r == RemoveConflicting(Tail(list), existing, up, rmFail)
         IN  IF c \notin up
             THEN [log |-> << Cmd(InspectRunningCmd(c), c \in existing) >> \o r.log,
                   removed |-> r.removed]
             ELSE [log |-> << Cmd(InspectRunningCmd(c), TRUE), Cmd(RmCmd(c), c \notin rmFail) >>
                           \o r.log,
                   removed |-> (IF c \in rmFail THEN {} ELSE {c}) \cup r.removed]

\* cleanup_stray_containers.  psOk: the listing succeeds; listed: the names it
\* prints, in the order it prints them; rmFail: the containers whose
\* `docker rm -f` exits non-zero.
\* As cleanup_stray_containers, without the enclosing try: a failed listing or
\* a failed removal of a listed container escapes to the caller.
cleanup_stray_containers_unguarded(existing, up, psOk, listed, rmFail) ==
    IF ~psOk THEN [log |-> << Cmd(PsN8nCmd, FALSE) >>, removed |-> {}, raised |-> TRUE]
    ELSE LET a == RemoveListed(listed, rmFail)
             b == RemoveConflicting(conflicting_containers, existing \ a.removed,
                                    up \ a.removed, rmFail)
         IN  IF a.raised
             THEN [log |-> << Cmd(PsN8nCmd, TRUE) >> \o a.log, removed |-> a.removed,
                   raised |-> TRUE]
             ELSE [log |-> << Cmd(PsN8nCmd, TRUE) >> \o a.log \o b.log,
                   removed |-> a.removed \cup b.removed, raised |-> FALSE]

\* Everything is inside one try whose `except Exception` only prints a note.
cleanup_stray_containers(existing, up, psOk, listed, rmFail) ==
    IF ~psOk THEN [log |-> << Cmd(PsN8nCmd, FALSE) >>, removed |-> {}, raised |-> FALSE]
    ELSE LET a == RemoveListed(listed, rmFail)
             b == RemoveConflicting(conflicting_containers, existing \ a.removed,
                                    up \ a.removed, rmFail)
         IN  IF a.raised
             THEN [log |-> << Cmd(PsN8nCmd, TRUE) >> \o a.log, removed |-> a.removed,
                   raised |-> FALSE]
             ELSE [log |-> << Cmd(PsN8nCmd, TRUE) >> \o a.log \o b.log,
                   removed |-> a.removed \cup b.removed, raised |-> FALSE]

\* Lines 193-209: inspect each name of all_containers and remove it if it
\* exists.  The inspect call passes check=False to run_command; when that does
\* not bind, each iteration raises TypeError, which `except Exception` catches,
\* and the loop issues nothing.
RECURSIVE RemoveAll(_, _, _)
RemoveAll(list, existing, rmFail) ==
    IF list = <<>> \/ ~Binds({"cmd", "description", "check"})
    THEN [log |-> <<>>, removed |-> {}]
    ELSE LET c == Head(list)
             r == RemoveAll(Tail(list), existing, rmFail)
         IN  IF c \notin existing
             THEN [log |-> << Cmd(InspectNameCmd(c), FALSE) >> \o r.log,
                   removed |-> r.removed]
             ELSE [log |-> << Cmd(InspectNameCmd(c), TRUE), Cmd(RmCmd(c), c \notin rmFail) >>
                           \o r.log,
                   removed |-> (IF c \in rmFail THEN {} ELSE {c}) \cup r.removed]

\* As comprehensive_cleanup, with the network prune outside its try: a failed
\* prune escapes to the caller.
comprehensive_cleanup_unguarded(existing, rmFail, pruneOk) ==
    LET a == RemoveAll(all_containers, existing, rmFail)
    IN  [log |-> a.log \o << Cmd(PruneCmd, pruneOk) >>, removed |-> a.removed,
         raised |-> ~pruneOk]

\* comprehensive_cleanup.  pruneOk: `docker network prune -f` succeeds (its
\* failure is swallowed).
comprehensive_cleanup(existing, rmFail, pruneOk) ==
    LET a == RemoveAll(all_containers, existing, rmFail)
    IN  [log |-> a.log \o << Cmd(PruneCmd, pruneOk) >>, removed |-> a.removed,
         raised |-> FALSE]

-----------------------------------------------------------------------------
(* The state of the machine the script is started on *)

NoProbe == [state |-> "none", saw |-> "none", is_first_run |-> TRUE,
            before |-> NoFile, wrote |-> "none"]

NoCleanup == [listed |-> <<>>, conflicting |-> {}, existing |-> {}]

\* The secret stage has not been executed on this machine.
NotProvisioned == [ran |-> FALSE, ok |-> FALSE, settings |-> NoFile]

\* searxng/settings-base.yml
Template == << "secret_key: ", "ultrasecretkey", "\n" >>

\* docker-compose.yml with the directive active, and commented out.
ComposeActive == << "searxng:\n", "cap_drop: - ALL", "\n" >>
ComposeRelaxed == << "searxng:\n", "# ", "cap_drop: - ALL",
                     "  # Temporarily commented out for first run", "\n" >>

NoRepo == [exists |-> FALSE, sparse |-> FALSE, checked |-> FALSE]
ReadyRepo == [exists |-> TRUE, sparse |-> TRUE, checked |-> TRUE]

\* The orders in which a listing can print the names of S.
Orderings(S) ==
    {f \in [1..Cardinality(S) -> S] : \A i, j \in 1..Cardinality(S) : f[i] = f[j] => i = j}

StartOfRun ==
    /\ pc = "INIT"
    /\ exitCode = {}
    /\ trail = << "INIT" >>
    /\ log = <<>>
    /\ absorbed = {}
    /\ probe = NoProbe
    /\ cleanupSaw = NoCleanup

\* The files the script needs are all in place, as after an earlier good run
\* of the first four stages on a fresh checkout of this repository.
FilesInPlace ==
    /\ repo = ReadyRepo
    /\ envFile = TRUE
    /\ settingsBase = TRUE
    /\ settings = File(Template)
    /\ compose = File(ComposeActive)

NoLeftovers ==
    /\ containers = {}
    /\ running = {}
    /\ marker = FALSE

\* The script is started with any of its arguments on a machine in order,
InitArgs ==
    /\ profile \in Profiles
    /\ environment \in Environments
    /\ FilesInPlace
    /\ NoLeftovers

\* or with its default arguments on a machine that varies in its checkout and
\* .env file,
InitCheckout ==
    /\ profile = "cpu"
    /\ environment = "private"
    /\ repo \in {NoRepo, ReadyRepo}
    /\ envFile \in BOOLEAN
    /\ settingsBase = TRUE
    /\ settings = File(Template)
    /\ compose = File(ComposeActive)
    /\ NoLeftovers

\* or in the searxng files and the searxng container,
InitSearxng ==
    /\ profile = "cpu"
    /\ environment = "private"
    /\ repo = ReadyRepo
    /\ envFile = TRUE
    /\ settingsBase \in BOOLEAN
    /\ settings \in {NoFile, File(Template)}
    /\ compose \in {NoFile, File(ComposeActive), File(ComposeRelaxed)}
    /\ containers \in {{}, {"localai-searxng-1"}}
    /\ running \in {{}, containers}
    /\ marker \in BOOLEAN

\* or in the containers left over from earlier deployments.
InitLeftovers ==
    /\ profile = "cpu"
    /\ environment = "private"
    /\ FilesInPlace
    /\ \E stray \in SUBSET N8nNames, other \in {{}, {"supabase-db-1", "searxng"}} :
          containers = stray \cup other
    /\ running = containers
    /\ marker = FALSE

Init ==
    /\ run = 1
    /\ StartOfRun
    /\ provisioned = [prev |-> NotProvisioned, cur |-> NotProvisioned]
    /\ (InitArgs \/ InitCheckout \/ InitSearxng \/ InitLeftovers)

-----------------------------------------------------------------------------
(* main() *)

Goto(next) ==
    /\ pc' = next
    /\ trail' = Append(trail, next)
    /\ exitCode' = IF next = "AI_UP" THEN {0} ELSE IF next = "ABORTED" THEN {1} ELSE {}

\* Line 389.  k: how many of the git commands succeed before one fails.
clone_supabase_repo ==
    /\ pc = "INIT"
    /\ IF ~repo.exists
       THEN \E k \in 0..4 :
              /\ log' = log \o RunUntilFailure(
                            << CloneCmd, SparseInitCmd, SparseSetCmd, CheckoutCmd >>, k)
              /\ repo' = [exists |-> k >= 1, sparse |-> k >= 3, checked |-> k >= 4]
              /\ Goto(IF k = 4 THEN "SYNCED" ELSE "ABORTED")
       ELSE \E k \in 0..1 :
              /\ log' = log \o RunUntilFailure(<< PullCmd >>, k)
              /\ repo' = repo
              /\ Goto(IF k = 1 THEN "SYNCED" ELSE "ABORTED")
    /\ UNCHANGED provisioned
    /\ UNCHANGED <<profile, environment, run, absorbed, envFile, settingsBase, settings,
                   compose, containers, running, marker, probe, cleanupSaw>>

\* As prepare_supabase_env, with a failed copy ignored.
prepare_supabase_env_unchecked ==
    /\ pc = "SYNCED"
    /\ Goto("ENV_READY")
    /\ UNCHANGED provisioned
    /\ UNCHANGED <<profile, environment, run, log, absorbed, repo, envFile, settingsBase,
                   settings, compose, containers, running, marker, probe, cleanupSaw>>

\* Line 390.  shutil.copyfile(".env", "supabase/docker/.env") raises when the
\* source or the destination directory is missing.
prepare_supabase_env ==
    /\ pc = "SYNCED"
    /\ Goto(IF envFile /\ repo.checked THEN "ENV_READY" ELSE "ABORTED")
    /\ UNCHANGED provisioned
    /\ UNCHANGED <<profile, environment, run, log, absorbed, repo, envFile, settingsBase,
                   settings, compose, containers, running, marker, probe, cleanupSaw>>

\* As generate_searxng_secret_key, with the template copied over a settings
\* file that exists.
generate_searxng_secret_key_recopy ==
    /\ pc = "ENV_READY"
    /\ \E sys \in Systems, copyOk \in BOOLEAN, genOk \in BOOLEAN, key \in Keys :
         LET done(ok) == provisioned' = [prev |-> provisioned.cur,
                                         cur |-> [ran |-> TRUE, ok |-> ok,
                                                  settings |-> settings']]
         IN  IF ~settingsBase
             THEN /\ settings' = settings
                  /\ absorbed' = absorbed \cup {"secret"}
                  /\ done(FALSE)
             ELSE IF ~settings.exists /\ ~copyOk
             THEN /\ settings' = settings
                  /\ absorbed' = absorbed \cup {"secret"}
                  /\ done(FALSE)
             ELSE LET s == File(Template)
                  IN  IF genOk
                      THEN /\ settings' = File(Replace(s.content, Placeholder, << key >>))
                           /\ absorbed' = absorbed
                           /\ done(TRUE)
                      ELSE /\ settings' = s
                           /\ absorbed' = absorbed \cup {"secret"}
                           /\ done(FALSE)
    /\ Goto("SECRETS_READY")
    /\ UNCHANGED <<profile, environment, run, log, repo, envFile, settingsBase,
                   compose, containers, running, marker, probe, cleanupSaw>>

\* Line 393.  copyOk: the copy of the template succeeds; genOk: the platform's
\* key generation and substitution commands succeed; key: the generated key.
generate_searxng_secret_key ==
    /\ pc = "ENV_READY"
    /\ \E sys \in Systems, copyOk \in BOOLEAN, genOk \in BOOLEAN, key \in Keys :
         LET done(ok) == provisioned' = [prev |-> provisioned.cur,
                                         cur |-> [ran |-> TRUE, ok |-> ok,
                                                  settings |-> settings']]
         IN  IF ~settingsBase
             THEN /\ settings' = settings
                  /\ absorbed' = absorbed \cup {"secret"}
                  /\ done(FALSE)
             ELSE IF ~settings.exists /\ ~copyOk
             THEN /\ settings' = settings
                  /\ absorbed' = absorbed \cup {"secret"}
                  /\ done(FALSE)
             ELSE LET s == IF settings.exists THEN settings ELSE File(Template)
                  IN  IF genOk
                      THEN /\ settings' = File(Replace(s.content, Placeholder, << key >>))
                           /\ absorbed' = absorbed
                           /\ done(TRUE)
                      ELSE /\ settings' = s
                           /\ absorbed' = absorbed \cup {"secret"}
                           /\ done(FALSE)
    /\ Goto("SECRETS_READY")
    /\ UNCHANGED <<profile, environment, run, log, repo, envFile, settingsBase,
                   compose, containers, running, marker, probe, cleanupSaw>>

\* Lines 325-357: what the probe of the searxng container comes to.
\* psOk: `docker ps` succeeds; exec: whether `docker exec` cannot be launched
\* ("raises"), exits non-zero without output ("fails") or runs the test.
ProbeSaw(up, mark, psOk, exec) ==
    IF ~psOk THEN "ps_failed"
    ELSE IF up \cap SearxngNames = {} THEN "not_running"
    ELSE IF exec = "raises" THEN "exec_raised"
    ELSE IF exec = "fails" THEN "exec_failed"
    ELSE IF mark THEN "marker_present" ELSE "marker_absent"

\* stdout of [ -f /etc/searxng/uwsgi.ini ] && echo 'found' || echo 'not_found'
ProbeStdout(saw) ==
    IF saw = "marker_present" THEN ProbeFound
    ELSE IF saw = "marker_absent" THEN ProbeNotFound
    ELSE <<>>

\* Lines 326-357: is_first_run stays True unless the exec ran and "found" is
\* in its stdout.
is_first_run(saw) ==
    IF saw \in {"ps_failed", "not_running", "exec_raised"} THEN TRUE
    ELSE ~Contains(ProbeStdout(saw), Found)

\* Lines 359-376: which rewrite, if any, the patch makes.
PatchBranch(content, first) ==
    IF first /\ Contains(content, Directive) THEN "relax"
    ELSE IF ~first /\ Contains(content, Sentinel) THEN "harden"
    ELSE "none"

\* As modified_content, with the restoring replacement left out.
modified_content_norestore(content, first) ==
    IF PatchBranch(content, first) = "relax" THEN Replace(content, Directive, Sentinel)
    ELSE content

modified_content(content, first) ==
    IF PatchBranch(content, first) = "relax" THEN Replace(content, Directive, Sentinel)
    ELSE IF PatchBranch(content, first) = "harden" THEN Replace(content, Sentinel, Directive)
    ELSE content

\* Line 394.  readOk: the file can be read; wr: whether rewriting the file
\* succeeds, fails on open (file untouched) or fails after truncating it.
check_and_fix_docker_compose_for_searxng ==
    /\ pc = "SECRETS_READY"
    /\ \E readOk \in BOOLEAN, psOk \in BOOLEAN, exec \in {"raises", "fails", "runs"},
          wr \in {"ok", "open_fails", "write_fails"} :
         IF ~compose.exists
         THEN /\ compose' = compose
              /\ absorbed' = absorbed
              /\ probe' = [NoProbe EXCEPT !.state = "missing"]
         ELSE IF ~readOk
         THEN /\ compose' = compose
              /\ absorbed' = absorbed \cup {"patch"}
              /\ probe' = [NoProbe EXCEPT !.state = "unreadable", !.before = compose]
         ELSE LET saw == ProbeSaw(running, marker, psOk, exec)
                  first == is_first_run(saw)
                  branch == PatchBranch(compose.content, first)
                  wrote == IF branch = "none" THEN "none" ELSE wr
              IN  /\ compose' = IF wrote = "ok"
                                THEN File(modified_content(compose.content, first))
                                ELSE IF wrote = "write_fails" THEN File(<<>>)
                                ELSE compose
                  /\ absorbed' = IF saw \in {"ps_failed", "exec_raised"}
                                    \/ wrote \in {"open_fails", "write_fails"}
                                 THEN absorbed \cup {"patch"} ELSE absorbed
                  /\ probe' = [state |-> "done", saw |-> saw, is_first_run |-> first,
                               before |-> compose, wrote |-> wrote]
    /\ Goto("PATCHED")
    /\ UNCHANGED provisioned
    /\ UNCHANGED <<profile, environment, run, log, repo, envFile, settingsBase, settings,
                   containers, running, marker, cleanupSaw>>

\* As check_existing_containers, without its try: a failed listing aborts.
check_existing_containers_unguarded ==
    /\ pc = "PATCHED"
    /\ \E k \in 0..3 :
         /\ log' = log \o RunUntilFailure(<< PsLocalaiCmd, PsN8nTableCmd, PsPortCmd >>, k)
         /\ absorbed' = absorbed
         /\ Goto(IF k < 3 THEN "ABORTED" ELSE "INVENTORIED")
    /\ probe' = NoProbe
    /\ UNCHANGED provisioned
    /\ UNCHANGED <<profile, environment, run, repo, envFile, settingsBase, settings,
                   compose, containers, running, marker, cleanupSaw>>

\* Line 397.  k: how many of the three listings succeed before one fails.
check_existing_containers ==
    /\ pc = "PATCHED"
    /\ \E k \in 0..3 :
         /\ log' = log \o RunUntilFailure(<< PsLocalaiCmd, PsN8nTableCmd, PsPortCmd >>, k)
         /\ absorbed' = IF k < 3 THEN absorbed \cup {"inventory"} ELSE absorbed
    /\ probe' = NoProbe
    /\ Goto("INVENTORIED")
    /\ UNCHANGED provisioned
    /\ UNCHANGED <<profile, environment, run, repo, envFile, settingsBase, settings,
                   compose, containers, running, marker, cleanupSaw>>

\* What a successful `compose down` of docker-compose.yml removes.
AfterDown(cs) == cs \ Range(MainContainers)

\* Line 399.  ok1, ok2: the first and the second `compose down` succeed; the
\* other inputs are those of cleanup_stray_containers.
stop_existing_containers ==
    /\ pc = "INVENTORIED"
    /\ \E ok1 \in BOOLEAN :
         IF ok1
         THEN /\ log' = Append(log, Cmd(DownCmd(profile), TRUE))
              /\ containers' = AfterDown(containers)
              /\ running' = AfterDown(running)
              /\ cleanupSaw' = cleanupSaw
              /\ Goto("CLEANED")
         ELSE \E psOk \in BOOLEAN, listed \in Orderings(containers \cap N8nNames),
                 rmFail \in SUBSET (containers \cap N8nNames), ok2 \in BOOLEAN :
                LET c == cleanup_stray_containers(containers, running, psOk, listed, rmFail)
                    left == containers \ c.removed
                    retried == ~c.raised
                    done == retried /\ ok2
                IN  /\ log' = log \o << Cmd(DownCmd(profile), FALSE) >> \o c.log
                                  \o (IF retried THEN << Cmd(DownCmd(profile), ok2) >> ELSE <<>>)
                    /\ containers' = IF done THEN AfterDown(left) ELSE left
                    /\ running' = IF done THEN AfterDown(running \ c.removed)
                                  ELSE running \ c.removed
                    /\ cleanupSaw' = [cleanupSaw EXCEPT
                                         !.listed = IF psOk THEN listed ELSE <<>>,
                                         !.conflicting = running \cap Range(conflicting_containers)]
                    /\ Goto(IF done THEN "CLEANED" ELSE "ABORTED")
    /\ UNCHANGED provisioned
    /\ UNCHANGED <<profile, environment, run, absorbed, repo, envFile, settingsBase,
                   settings, compose, marker, probe>>

\* As start_supabase, with the command's failure ignored.
start_supabase_unchecked ==
    /\ pc = "CLEANED"
    /\ \E ok \in BOOLEAN :
         /\ log' = Append(log, Cmd(SupabaseUpCmd(environment), ok))
         /\ containers' = IF ok THEN containers \cup Range(SupabaseContainers) ELSE containers
         /\ running' = IF ok THEN running \cup Range(SupabaseContainers) ELSE running
         /\ Goto("SUPABASE_UP")
    /\ UNCHANGED provisioned
    /\ UNCHANGED <<profile, environment, run, absorbed, repo, envFile, settingsBase,
                   settings, compose, marker, probe, cleanupSaw>>

\* As start_supabase, with the command issued once more when it fails.
start_supabase_retrying ==
    /\ pc = "CLEANED"
    /\ \E ok \in BOOLEAN, ok2 \in BOOLEAN :
         LET up == ok \/ ok2
         IN  /\ log' = log \o << Cmd(SupabaseUpCmd(environment), ok) >>
                           \o (IF ok THEN <<>>
                               ELSE << Cmd(SupabaseUpCmd(environment), ok2) >>)
             /\ containers' = IF up THEN containers \cup Range(SupabaseContainers)
                              ELSE containers
             /\ running' = IF up THEN running \cup Range(SupabaseContainers) ELSE running
             /\ Goto(IF up THEN "SUPABASE_UP" ELSE "ABORTED")
    /\ UNCHANGED provisioned
    /\ UNCHANGED <<profile, environment, run, absorbed, repo, envFile, settingsBase,
                   settings, compose, marker, probe, cleanupSaw>>

\* Line 402.
start_supabase ==
    /\ pc = "CLEANED"
    /\ \E ok \in BOOLEAN :
         /\ log' = Append(log, Cmd(SupabaseUpCmd(environment), ok))
         /\ containers' = IF ok THEN containers \cup Range(SupabaseContainers) ELSE containers
         /\ running' = IF ok THEN running \cup Range(SupabaseContainers) ELSE running
         /\ Goto(IF ok THEN "SUPABASE_UP" ELSE "ABORTED")
    /\ UNCHANGED provisioned
    /\ UNCHANGED <<profile, environment, run, absorbed, repo, envFile, settingsBase,
                   settings, compose, marker, probe, cleanupSaw>>

\* Line 406.
sleep ==
    /\ pc = "SUPABASE_UP"
    /\ log' = Append(log, Sleep(SettleSeconds))
    /\ Goto("SETTLING")
    /\ UNCHANGED provisioned
    /\ UNCHANGED <<profile, environment, run, absorbed, repo, envFile, settingsBase,
                   settings, compose, containers, running, marker, probe, cleanupSaw>>

\* Line 409.  ok1, ok2: the first and the second `up -d` succeed; the other
\* inputs are those of comprehensive_cleanup.
start_local_ai ==
    /\ pc = "SETTLING"
    /\ \E ok1 \in BOOLEAN :
         IF ok1
         THEN /\ log' = Append(log, Cmd(LocalAiUpCmd(profile, environment), TRUE))
              /\ containers' = containers \cup Range(MainContainers)
              /\ running' = running \cup Range(MainContainers)
              /\ cleanupSaw' = cleanupSaw
              /\ Goto("AI_UP")
         ELSE \E rmFail \in SUBSET (containers \cap N8nNames), pruneOk \in BOOLEAN,
                 ok2 \in BOOLEAN :
                LET c == comprehensive_cleanup(containers, rmFail, pruneOk)
                    left == containers \ c.removed
                    retried == ~c.raised
                    done == retried /\ ok2
                IN  /\ log' = log \o << Cmd(LocalAiUpCmd(profile, environment), FALSE) >>
                                  \o c.log
                                  \o (IF retried
                                      THEN << Cmd(LocalAiUpCmd(profile, environment), ok2) >>
                                      ELSE <<>>)
                    /\ containers' = IF done THEN left \cup Range(MainContainers) ELSE left
                    /\ running' = IF done THEN (running \ c.removed) \cup Range(MainContainers)
                                  ELSE running \ c.removed
                    /\ cleanupSaw' = [cleanupSaw EXCEPT !.existing = containers]
                    /\ Goto(IF done THEN "AI_UP" ELSE "ABORTED")
    /\ UNCHANGED provisioned
    /\ UNCHANGED <<profile, environment, run, absorbed, repo, envFile, settingsBase,
                   settings, compose, marker, probe>>

\* The operator starts the script again on the machine as the last run left
\* it; meanwhile a running searxng container may have finished initializing.
NewRun ==
    /\ pc \in {"AI_UP", "ABORTED"}
    /\ run < MaxRuns
    /\ run' = run + 1
    /\ pc' = "INIT"
    /\ exitCode' = {}
    /\ trail' = << "INIT" >>
    /\ log' = <<>>
    /\ absorbed' = {}
    /\ probe' = NoProbe
    /\ cleanupSaw' = NoCleanup
    /\ marker' \in {marker, marker \/ running \cap SearxngNames # {}}
    /\ UNCHANGED provisioned
    /\ UNCHANGED <<profile, environment, repo, envFile, settingsBase, settings, compose,
                   containers, running>>

Next ==
    \/ clone_supabase_repo
    \/ prepare_supabase_env
    \/ generate_searxng_secret_key
    \/ check_and_fix_docker_compose_for_searxng
    \/ check_existing_containers
    \/ stop_existing_containers
    \/ start_supabase
    \/ sleep
    \/ start_local_ai

\* One invocation of the script.
Spec == Init /\ [][Next]_vars

\* Up to MaxRuns invocations in a row.
NextRuns == Next \/ NewRun
RunsSpec == Init /\ [][NextRuns]_vars

\* Up to MaxRuns invocations in a row, on the machines of InitSearxng.
SearxngRunsInit ==
    /\ run = 1
    /\ StartOfRun
    /\ provisioned = [prev |-> NotProvisioned, cur |-> NotProvisioned]
    /\ InitSearxng

SearxngRunsSpec == SearxngRunsInit /\ [][NextRuns]_vars

\* Up to MaxRuns invocations in a row, on the machines of InitCheckout.
CheckoutRunsInit ==
    /\ run = 1
    /\ StartOfRun
    /\ provisioned = [prev |-> NotProvisioned, cur |-> NotProvisioned]
    /\ InitCheckout

CheckoutRunsSpec == CheckoutRunsInit /\ [][NextRuns]_vars

-----------------------------------------------------------------------------
(* Reading the log *)

Final == {"AI_UP", "ABORTED"}

FullTrail == << "INIT", "SYNCED", "ENV_READY", "SECRETS_READY", "PATCHED",
                "INVENTORIED", "CLEANED", "SUPABASE_UP", "SETTLING", "AI_UP" >>

Reached(p) == \E i \in DOMAIN trail : trail[i] = p

IsCompose(e) ==
    /\ e.kind = "run"
    /\ Len(e.cmd) >= 3
    /\ SubSeq(e.cmd, 1, 2) = << "docker", "compose" >>

IsDown(e) == IsCompose(e) /\ e.cmd[Len(e.cmd)] = "down"
IsUp(e) == IsCompose(e) /\ SubSeq(e.cmd, Len(e.cmd) - 1, Len(e.cmd)) = << "up", "-d" >>
IsSupabaseUp(e) == IsUp(e) /\ "supabase/docker/docker-compose.yml" \in Range(e.cmd)
IsLocalAiUp(e) == IsUp(e) /\ "docker-compose.yml" \in Range(e.cmd)
IsSleep(e) == e.kind = "sleep"
IsRm(e, c) == e.kind = "run" /\ e.cmd = RmCmd(c)
IsAnyRm(e) == e.kind = "run" /\ Len(e.cmd) = 4 /\ SubSeq(e.cmd, 1, 3) = << "docker", "rm", "-f" >>
IsGit(e) == e.kind = "run" /\ e.cmd[1] = "git"

DownIdx == {i \in DOMAIN log : IsDown(log[i])}
SupabaseUpIdx == {i \in DOMAIN log : IsSupabaseUp(log[i])}
LocalAiUpIdx == {i \in DOMAIN log : IsLocalAiUp(log[i])}
SleepIdx == {i \in DOMAIN log : IsSleep(log[i])}

Min(S) == CHOOSE x \in S : \A y \in S : x <= y
Max(S) == CHOOSE x \in S : \A y \in S : y <= x

-----------------------------------------------------------------------------
(* Claims *)

\* C1: the Supabase `up -d` precedes every local AI `up -d`; the sleep is taken
\* at most once, lasts 10, and when a local AI `up -d` is issued it was taken
\* exactly once, after the Supabase `up -d` and before every local AI `up -d`;
\* and a local AI `up -d` is issued only after a successful teardown followed
\* by a successful Supabase `up -d`.
C1_OrderedStartup ==
    /\ Cardinality(SleepIdx) <= 1
    /\ \A k \in SleepIdx : log[k].secs = 10
    /\ LocalAiUpIdx # {} =>
          /\ Cardinality(SleepIdx) = 1
          /\ SupabaseUpIdx # {}
          /\ \A s \in SupabaseUpIdx, k \in SleepIdx, a \in LocalAiUpIdx : s < k /\ k < a
          /\ \A s \in SupabaseUpIdx : log[s].ok
          /\ log[Max(DownIdx)].ok
          /\ \A d \in DownIdx, s \in SupabaseUpIdx : d < s

C1_Witness ==
    /\ pc = "AI_UP"
    /\ Cardinality(LocalAiUpIdx) = 2
    /\ Cardinality(DownIdx) = 2

\* C2: the local AI `up -d` is attempted at most twice; when the first attempt
\* fails, the exhaustive cleanup runs (its network prune is in the log) and the
\* identical command is issued once more, whether or not the cleanup's own
\* command fails; when the second attempt fails the run aborts.
C2_StartupRetry ==
    LocalAiUpIdx # {} =>
       LET first == Min(LocalAiUpIdx)
           last == Max(LocalAiUpIdx)
       IN  /\ Cardinality(LocalAiUpIdx) <= 2
           /\ last = Len(log)
           /\ log[first].ok => Cardinality(LocalAiUpIdx) = 1
           /\ ~log[first].ok =>
                 /\ Cardinality(LocalAiUpIdx) = 2
                 /\ log[last].cmd = log[first].cmd
                 /\ \E p \in DOMAIN log : first < p /\ p < last /\ log[p].cmd = PruneCmd
           /\ log[last].ok => pc = "AI_UP"
           /\ ~log[last].ok => pc = "ABORTED" /\ exitCode = {1}

C2_Witness ==
    /\ Cardinality(LocalAiUpIdx) = 2
    /\ \E p \in DOMAIN log : log[p].cmd = PruneCmd /\ ~log[p].ok
    /\ pc = "AI_UP"

\* C3: `compose down` is attempted at most twice; when the first attempt fails,
\* the light cleanup runs (its listing is in the log) and the same command is
\* issued once more, whether or not a command of the cleanup fails; when the
\* retry fails the run aborts and no stack is started.
C3_TeardownRetry ==
    DownIdx # {} =>
       LET first == Min(DownIdx)
           last == Max(DownIdx)
       IN  /\ Cardinality(DownIdx) <= 2
           /\ log[first].ok => Cardinality(DownIdx) = 1
           /\ ~log[first].ok =>
                 /\ Cardinality(DownIdx) = 2
                 /\ log[last].cmd = log[first].cmd
                 /\ \E p \in DOMAIN log : first < p /\ p < last /\ log[p].cmd = PsN8nCmd
           /\ ~log[last].ok =>
                 /\ pc = "ABORTED"
                 /\ exitCode = {1}
                 /\ last = Len(log)
                 /\ \A i \in DOMAIN log : ~IsUp(log[i])

C3_Witness ==
    /\ Cardinality(DownIdx) = 2
    /\ \E p \in DOMAIN log : IsAnyRm(log[p]) /\ ~log[p].ok
    /\ pc = "CLEANED"

C3_WitnessAbort ==
    /\ Cardinality(DownIdx) = 2
    /\ \E p \in DOMAIN log : log[p].cmd = PsN8nCmd /\ ~log[p].ok
    /\ pc = "ABORTED"

\* C4: a run that has ended is in AI_UP with exit code 0 or in ABORTED with a
\* non-zero exit code, and until then it has no exit code and can take a step;
\* AI_UP is reached only through every stage, with the sync, the copy, the
\* teardown, the Supabase startup and the local AI startup succeeded within
\* their retry allowance; ABORTED follows a failed command or a failed copy,
\* and no step is taken after either.
C4_FinalStates ==
    /\ pc \notin Final => exitCode = {} /\ ENABLED Next
    /\ pc \in Final => ~ENABLED Next
    /\ pc = "AI_UP" =>
          /\ exitCode = {0}
          /\ trail = FullTrail
          /\ \E i \in DOMAIN log : log[i].cmd \in {CheckoutCmd, PullCmd} /\ log[i].ok
          /\ \A i \in DOMAIN log : IsGit(log[i]) => log[i].ok
          /\ envFile /\ repo.checked
          /\ Cardinality(DownIdx) \in 1..2 /\ log[Max(DownIdx)].ok
          /\ Cardinality(SupabaseUpIdx) = 1 /\ \A i \in SupabaseUpIdx : log[i].ok
          /\ Cardinality(LocalAiUpIdx) \in 1..2 /\ log[Max(LocalAiUpIdx)].ok
    /\ pc = "ABORTED" =>
          /\ exitCode \cap {0} = {} /\ exitCode # {}
          /\ trail[Len(trail)] = "ABORTED"
          /\ \/ trail[Len(trail) - 1] = "SYNCED" /\ ~(envFile /\ repo.checked)
             \/ log # <<>> /\ ~log[Len(log)].ok

C4_WitnessUp == pc = "AI_UP" /\ Cardinality(DownIdx) = 2 /\ Cardinality(LocalAiUpIdx) = 2

C4_WitnessAborted == pc = "ABORTED" /\ Cardinality(LocalAiUpIdx) = 2

\* C5: no failure in secret provisioning, in the compose patch or in the
\* container inventory ends the run: from each of these stages the run takes
\* its next step, never to ABORTED, and whenever the run is past the inventory
\* the teardown command has been issued.
C5_AbsorbedFailures ==
    /\ pc \in {"ENV_READY", "SECRETS_READY", "PATCHED", "INVENTORIED"} => ENABLED Next
    /\ pc = "ABORTED" /\ Reached("ENV_READY") => Reached("INVENTORIED")
    /\ Reached("INVENTORIED") /\ pc # "INVENTORIED" => DownIdx # {}

C5_Witness ==
    /\ absorbed = {"secret", "patch", "inventory"}
    /\ DownIdx # {}

\* The directive occurs in the text outside a comment.
HasActive(c) ==
    \E i \in DOMAIN c : c[i] = Directive[1] /\ (i = 1 \/ c[i - 1] # Sentinel[1])

\* Every occurrence of the directive in the text is commented out by exactly
\* one sentinel, and there is one.
SentinelForm(c) ==
    /\ Contains(c, Sentinel)
    /\ \A i \in DOMAIN c : c[i] = Directive[1] =>
          /\ i > 1 /\ c[i - 1] = Sentinel[1]
          /\ (i > 2 => c[i - 2] # Sentinel[1])
          /\ i < Len(c) /\ c[i + 1] = Sentinel[3]
          /\ (i + 1 < Len(c) => c[i + 2] # Sentinel[3])

\* C6: the patch decides HARDENED (is_first_run False) exactly when a searxng
\* container is running and the probe ran and found the marker file; in every
\* other case it decides RELAXED.
C6_TargetState ==
    probe.state = "done" => (~probe.is_first_run <=> probe.saw = "marker_present")

\* C7: when the patch rewrites the file without an I/O error: from a file with
\* the directive active and no searxng container running, the file then holds
\* the sentinel and no active directive; from a file in sentinel form and a
\* running container in which the probe finds the marker, the file then holds
\* the active directive and no sentinel.
C7_Toggle ==
    probe.state = "done" /\ probe.wrote \notin {"open_fails", "write_fails"} =>
       /\ HasActive(probe.before.content) /\ probe.saw = "not_running" =>
             /\ Contains(compose.content, Sentinel)
             /\ ~HasActive(compose.content)
       /\ SentinelForm(probe.before.content) /\ probe.saw = "marker_present" =>
             /\ HasActive(compose.content)
             /\ ~Contains(compose.content, Sentinel)

C7_WitnessHarden ==
    /\ probe.state = "done" /\ probe.wrote = "ok"
    /\ SentinelForm(probe.before.content) /\ probe.saw = "marker_present"
    /\ compose = File(ComposeActive)

C7_WitnessRelax ==
    /\ probe.state = "done" /\ probe.wrote = "ok"
    /\ HasActive(probe.before.content) /\ probe.saw = "not_running"
    /\ compose = File(ComposeRelaxed)

\* C8: when the first local AI `up -d` fails and the retry succeeds, the run
\* ends with exit code 0 and, between the two attempts, `docker rm -f` is
\* issued for every existing container of all_containers, and the network
\* prune is issued after these.
C8_CleanupBetweenAttempts ==
    pc = "AI_UP" /\ Cardinality(LocalAiUpIdx) = 2 =>
       LET first == Min(LocalAiUpIdx)
           last == Max(LocalAiUpIdx)
       IN  /\ exitCode = {0}
           /\ \E p \in DOMAIN log : first < p /\ p < last /\ log[p].cmd = PruneCmd
           /\ \A c \in cleanupSaw.existing \cap Range(all_containers) :
                 \E i, p \in DOMAIN log :
                    /\ first < i /\ i < p /\ p < last
                    /\ IsRm(log[i], c)
                    /\ log[p].cmd = PruneCmd

\* C9: in either cleanup pass, when a `docker rm -f` fails, a `docker rm -f` is
\* still issued for every other container the pass had to remove: in the light
\* pass the listed n8n containers and the running containers of
\* conflicting_containers, in the exhaustive pass the existing containers of
\* all_containers.
C9_IndependentRemovals ==
    /\ (\E i \in DOMAIN log : i < Max(DownIdx \cup {0}) /\ IsAnyRm(log[i]) /\ ~log[i].ok) =>
          \A c \in Range(cleanupSaw.listed) \cup cleanupSaw.conflicting :
             \E i \in DOMAIN log : i < Max(DownIdx) /\ IsRm(log[i], c)
    /\ (\E i \in DOMAIN log : i > Min(LocalAiUpIdx \cup {Len(log) + 1})
                              /\ IsAnyRm(log[i]) /\ ~log[i].ok) =>
          \A c \in cleanupSaw.existing \cap Range(all_containers) :
             \E i \in DOMAIN log : i > Min(LocalAiUpIdx) /\ IsRm(log[i], c)

C10_WitnessUp ==
    /\ pc = "AI_UP"
    /\ Cardinality(LocalAiUpIdx) = 2
    /\ Range(SupabaseContainers) \subseteq running

\* C11: when an execution of the secret stage has replaced the placeholder,
\* the next execution of the stage, in a later run, leaves settings.yml as that
\* one left it, whatever key it generates; and from then on settings.yml
\* exists and does not contain the placeholder.
C11_SecretIdempotent ==
    /\ provisioned.prev.ok /\ provisioned.cur.ran =>
          /\ provisioned.cur.settings = provisioned.prev.settings
          /\ settings = provisioned.prev.settings
    /\ provisioned.prev.ok \/ provisioned.cur.ok =>
          /\ settings.exists
          /\ ~Contains(settings.content, Placeholder)

C11_Witness ==
    /\ run = 2
    /\ pc = "SECRETS_READY"
    /\ provisioned.prev.ok
    /\ provisioned.cur.ok
    /\ settings = File(<< "secret_key: ", "key-a", "\n" >>)

\* C12: the Supabase `up -d` is issued at most once in a run; when it fails
\* it is the last thing the run does (no cleanup command, no second `up -d`,
\* no sleep, no local AI `up -d`) and the run is aborted with exit code 1.
C12_SupabaseOnce ==
    /\ Cardinality(SupabaseUpIdx) <= 1
    /\ \A s \in SupabaseUpIdx : ~log[s].ok =>
          /\ s = Len(log)
          /\ SleepIdx = {}
          /\ LocalAiUpIdx = {}
          /\ pc = "ABORTED"
          /\ exitCode = {1}

C12_Witness ==
    /\ pc = "ABORTED"
    /\ \E s \in SupabaseUpIdx : ~log[s].ok
    /\ environment = "public"

\* The positions of a flag in a command, and the arguments that follow it.
FlagIdx(e, flag) == {i \in DOMAIN e.cmd : e.cmd[i] = flag}

RECURSIVE FlagArgsFrom(_, _, _)
FlagArgsFrom(cmd, flag, i) ==
    IF i >= Len(cmd) THEN <<>>
    ELSE IF cmd[i] = flag THEN << cmd[i + 1] >> \o FlagArgsFrom(cmd, flag, i + 2)
    ELSE FlagArgsFrom(cmd, flag, i + 1)

FlagArgs(e, flag) == FlagArgsFrom(e.cmd, flag, 1)

\* C13: every `compose down` and every local AI `up -d` of the run carries
\* `--profile` exactly once, followed by the selected profile, when the profile
\* is cpu, gpu-nvidia or gpu-amd, and does not carry `--profile` when the
\* profile is none.
C13_ProfileFlag ==
    \A i \in DownIdx \cup LocalAiUpIdx :
       /\ profile \in {"cpu", "gpu-nvidia", "gpu-amd"} =>
             /\ Cardinality(FlagIdx(log[i], "--profile")) = 1
             /\ FlagArgs(log[i], "--profile") = << profile >>
       /\ profile = "none" => FlagIdx(log[i], "--profile") = {}

C13_Witness ==
    /\ pc = "AI_UP"
    /\ profile = "gpu-amd"
    /\ Cardinality(DownIdx) = 2
    /\ Cardinality(LocalAiUpIdx) = 2

C13_WitnessNone ==
    /\ pc = "AI_UP"
    /\ profile = "none"
    /\ Cardinality(DownIdx) = 2
    /\ Cardinality(LocalAiUpIdx) = 2

\* C14: the files of every local AI `up -d` are docker-compose.yml followed by
\* one override, the private one when the environment is private and the
\* public one when it is public; the files of the Supabase `up -d` are its
\* compose file, followed by the public Supabase override when the environment
\* is public and by nothing otherwise.
C14_OverrideFiles ==
    /\ \A i \in LocalAiUpIdx :
          FlagArgs(log[i], "-f") =
             << "docker-compose.yml",
                IF environment = "private" THEN "docker-compose.override.private.yml"
                ELSE "docker-compose.override.public.yml" >>
    /\ \A i \in SupabaseUpIdx :
          FlagArgs(log[i], "-f") =
             << "supabase/docker/docker-compose.yml" >>
             \o (IF environment = "public"
                 THEN << "docker-compose.override.public.supabase.yml" >>
                 ELSE <<>>)

C14_Witness ==
    /\ pc = "AI_UP"
    /\ environment = "private"
    /\ Cardinality(LocalAiUpIdx) = 2
    /\ Cardinality(SupabaseUpIdx) = 1

C14_WitnessPublic ==
    /\ pc = "AI_UP"
    /\ environment = "public"
    /\ Cardinality(LocalAiUpIdx) = 1
    /\ Cardinality(SupabaseUpIdx) = 1

\* The text after k patches in the RELAXED direction.
RECURSIVE RelaxedTimes(_, _)
RelaxedTimes(c, k) ==
    IF k = 0 THEN c ELSE modified_content(RelaxedTimes(c, k - 1), TRUE)

\* C15: when the compose file is what one or more patches in the RELAXED
\* direction made of the file with the active directive, and a patch in the
\* HARDENED direction completes without an I/O error, the compose file is the
\* file with the active directive again.
C15_RoundTrip ==
    /\ probe.state = "done"
    /\ probe.wrote \notin {"open_fails", "write_fails"}
    /\ ~probe.is_first_run
    /\ \E k \in 1..MaxRuns : probe.before = File(RelaxedTimes(ComposeActive, k))
    => compose = File(ComposeActive)

\* C17: when the compose file is in sentinel form and the patch decides RELAXED
\* and completes without an I/O error, the compose file is as it was.
C17_RelaxedIdempotent ==
    /\ probe.state = "done"
    /\ probe.wrote \notin {"open_fails", "write_fails"}
    /\ probe.is_first_run
    /\ SentinelForm(probe.before.content)
    => compose = probe.before

\* C16: when the light cleanup has run (between the two `compose down`) and
\* every command it issued succeeded, it issued a `docker rm -f` for exactly
\* those containers of conflicting_containers that were running.
C16_LightCleanupRemoves ==
    /\ Cardinality(DownIdx) = 2
    /\ \A i \in DOMAIN log : Min(DownIdx) < i /\ i < Max(DownIdx) => log[i].ok
    => \A c \in Range(conflicting_containers) :
          c \in cleanupSaw.conflicting <=>
             \E i \in DOMAIN log : Min(DownIdx) < i /\ i < Max(DownIdx) /\ IsRm(log[i], c)

\* C18: in every run, once clone_supabase_repo has returned (main() has gone
\* on to prepare_supabase_env), the supabase/ checkout exists, has the
\* sparse-checkout restriction to docker applied and the default branch
\* checked out.
C18_SyncedIsSparse ==
    Reached("SYNCED") => repo.exists /\ repo.sparse /\ repo.checked

====
